---- MODULE Spec2Model ----
(***************************************************************************)
(* Verification model of src/app.py, the ALMG BI assistant: the asset      *)
(* provisioning at start-up (download_file, download_database_and_         *)
(* relations, get_database_engine) and the question pipeline               *)
(* (executar_plano_de_analise): prompt composition, cleaning of the LLM    *)
(* response, execution, counter sentence, link column and column order.    *)
(*                                                                         *)
(* Text is modelled as a sequence of characters, every character a         *)
(* one-character string; the backtick is written Backtick.  The regular    *)
(* expressions of the cleaning step are computed character by character.   *)
(***************************************************************************)
EXTENDS Naturals, Sequences, FiniteSets, TLC

VARIABLES
    \* executar_plano_de_analise
    pc,              \* position inside executar_plano_de_analise
    API_KEY,         \* get_api_key() is non-empty
    prompt_usuario,  \* the question typed by the user
    llm,             \* what model.generate_content does for this run
    db,              \* what pd.read_sql does for this run
    instrucao,       \* the composed prompt
    query_sql,       \* the local variable query_sql
    executed,        \* the SQL texts handed to pd.read_sql, in order
    df_resultado,    \* the result table
    frase_total,     \* the counter sentence shown by st.markdown
    ret,             \* the pair returned by executar_plano_de_analise
    \* asset provisioning
    spc,             \* position of every UI session in the script's start-up
    files,           \* the local file system: chunks written per path
    resource_cache,  \* st.cache_resource entry of get_database_engine
    data_cache,      \* st.cache_data entry of download_database_and_relations
    resource_lock,   \* sessions computing get_database_engine
    data_lock,       \* sessions computing download_database_and_relations
    cur,             \* per session: index of the file being provisioned
    oks,             \* per session: db_ok, rel_ok, doc_ok so far
    last,            \* per session: how its last download_file call ended
    writers,         \* per path: sessions holding the file open for writing
    requests,        \* per path: HTTP requests issued so far (all processes)
    first_call,      \* per path: outcome of the first download_file call for it
    body_runs,       \* per path: download bodies started in this process
    restarts,        \* process restarts so far
    \* load_relationships_from_file and the relation lines of the schema text
    rel_pc,          \* position inside load_relationships_from_file
    relations_records, \* the records of the relations file, in file order
    df_rel,          \* the rows kept by the IsActive filter
    rel_i,           \* index of the row the for loop is at
    rel_map,         \* the local dict rel_map
    rel_ret,         \* the map load_relationships_from_file returned
    rel_msgs,        \* st.warning / st.error shown by the function
    rel_lines        \* the relation lines get_database_engine wrote

pvars == <<pc, API_KEY, prompt_usuario, llm, db, instrucao, query_sql, executed,
           df_resultado, frase_total, ret>>
dvars == <<spc, files, resource_cache, data_cache, resource_lock, data_lock,
           cur, oks, last, writers, requests, first_call, body_runs, restarts>>
rvars == <<rel_pc, relations_records, df_rel, rel_i, rel_map, rel_ret, rel_msgs,
           rel_lines>>
vars == <<pvars, dvars, rvars>>

None == "None"

----------------------------------------------------------------------------
(* Text *)

Backtick == "BACKTICK"

\* the characters str.strip() and the regex class \s remove
Whitespace == {"\n", " "}

LowerChars == <<"a", "b", "c", "d", "e", "f", "g", "h", "i", "j", "k", "l", "m", "n", "o", "p", "q", "r", "s", "t", "u", "v", "w", "x", "y", "z">>
UpperChars == <<"A", "B", "C", "D", "E", "F", "G", "H", "I", "J", "K", "L", "M", "N", "O", "P", "Q", "R", "S", "T", "U", "V", "W", "X", "Y", "Z">>

\* one character of str.lower()
lower_char(c) ==
    IF \E i \in 1..Len(UpperChars) : UpperChars[i] = c
    THEN LowerChars[CHOOSE i \in 1..Len(UpperChars) : UpperChars[i] = c]
    ELSE c

\* str.lower()
lower(s) == [i \in 1..Len(s) |-> lower_char(s[i])]

\* the pattern pat matches s at position i (ignoring case when ci)
MatchAt(pat, s, i, ci) ==
    /\ i >= 1
    /\ i + Len(pat) - 1 <= Len(s)
    /\ \A k \in 1..Len(pat) :
          IF ci THEN lower_char(s[i + k - 1]) = lower_char(pat[k])
                ELSE s[i + k - 1] = pat[k]

\* position of the leftmost match of pat in s, 0 when there is none
Find(pat, s, ci) ==
    LET hits == {i \in 1..Len(s) : MatchAt(pat, s, i, ci)}
    IN  IF hits = {} THEN 0 ELSE CHOOSE i \in hits : \A j \in hits : i <= j

\* Python's `pat in s`
Contains(pat, s) == pat = <<>> \/ Find(pat, s, FALSE) # 0

\* s[i:] for a 1-based i
From(s, i) == SubSeq(s, i, Len(s))

\* str.lstrip() and the regex \s* at the head of s
lstrip(s) ==
    LET keep == {i \in 1..Len(s) : s[i] \notin Whitespace}
    IN  IF keep = {} THEN <<>>
        ELSE From(s, CHOOSE i \in keep : \A j \in keep : i <= j)

\* str.strip()
strip(s) ==
    LET keep == {i \in 1..Len(s) : s[i] \notin Whitespace}
    IN  IF keep = {} THEN <<>>
        ELSE SubSeq(s, CHOOSE i \in keep : \A j \in keep : i <= j,
                       CHOOSE i \in keep : \A j \in keep : i >= j)

RECURSIVE Concat(_)
\* "".join(parts)
Concat(parts) == IF parts = <<>> THEN <<>> ELSE Head(parts) \o Concat(Tail(parts))

\* the sequences of at most n members of S
SeqsUpTo(S, n) == UNION {[1..k -> S] : k \in 0..n}

----------------------------------------------------------------------------
(* Configuration constants of app.py *)

NORMA_COLS ==
    <<"dnj.tipo_descricao AS Tipo", "dnj.numeracao AS Número", "dnj.ano AS Ano",
      "dnj.ementa AS Ementa", "dnj.url AS url">>

PROPOSICAO_COLS ==
    <<"dp.tipo_descricao AS Tipo", "dp.numero AS Número", "dp.ano AS Ano",
      "dp.ementa AS Ementa", "dp.url AS url">>

NORMA_KEYWORDS ==
    <<<<"n", "o", "r", "m", "a">>, <<"l", "e", "i">>, <<"a", "t", "o">>, <<"l", "e", "g", "i", "s", "l", "a", "ç", "ã", "o">>,
      <<"d", "e", "c", "r", "e", "t", "o">>, <<"r", "e", "s", "o", "l", "u", "ç", "ã", "o">>, <<"p", "u", "b", "l", "i", "c", "a", "d", "a">>>>

RECURSIVE JoinStr(_, _)
\* sep.join(parts), on sequences of texts
JoinStr(sep, parts) ==
    IF parts = <<>> THEN <<>>
    ELSE IF Len(parts) = 1 THEN parts[1]
    ELSE parts[1] \o sep \o JoinStr(sep, Tail(parts))

\* ", ".join([f"'{k}'" for k in NORMA_KEYWORDS])
NORMA_KEYWORDS_STR ==
    JoinStr(<<",", " ">>, [i \in 1..Len(NORMA_KEYWORDS) |-> <<"'">> \o NORMA_KEYWORDS[i] \o <<"'">>])

\* the fixed texts are one element each
NORMA_JOIN_INSTRUCTION == <<"FROM dim_norma_juridica AS dnj INNER JOIN fat_publicacao_norma_juridica AS fpnj">>

PROPOSICAO_JOIN_INSTRUCTION == <<"FROM dim_proposicao AS dp">>

ROBUSTEZ_INSTRUCAO == <<"ROBUSTEZ DE FILTROS">>

\* ", ".join(cols) on a list of column texts
JoinCols(cols) == JoinStr(<<", ">>, [i \in 1..Len(cols) |-> <<cols[i]>>])

\* {", ".join(NORMA_COLS)} and {", ".join(PROPOSICAO_COLS)}
NORMA_COLS_STR == JoinCols(NORMA_COLS)
PROPOSICAO_COLS_STR == JoinCols(PROPOSICAO_COLS)

\* rule 1 and rule 2 are both part of the one constant text
ROTEAMENTO_INSTRUCAO ==
    <<"ANÁLISE DE INTENÇÃO", "1. Se a pergunta do usuário contiver as palavras-chave de NORMA (">>
    \o NORMA_KEYWORDS_STR
    \o <<"), use a instrução de JOIN de NORMA:", "- COLUNAS OBRIGATÓRIAS: ">>
    \o NORMA_COLS_STR
    \o <<"- FROM/JOIN OBRIGATÓRIO: ">> \o NORMA_JOIN_INSTRUCTION
    \o <<"2. Caso contrário, use a instrução de JOIN de PROPOSIÇÃO:", "- COLUNAS OBRIGATÓRIAS: ">>
    \o PROPOSICAO_COLS_STR
    \o <<"- FROM/JOIN OBRIGATÓRIO: ">> \o PROPOSICAO_JOIN_INSTRUCTION
    \o <<"3. SEMPRE USE DISTINCT.">>
    \o ROBUSTEZ_INSTRUCAO

\* load_documentation_content(DOC_FILE): a fixed text for the run
documentacao_semantica == <<"DOCUMENTAÇÃO SEMÂNTICA">>

\* the schema text get_database_engine built
esquema == <<"Tabela dim_proposicao", "Tabela dim_norma_juridica", "RELAÇÕES PRINCIPAIS">>

\* faulty variant: the prompt is given only the rule the question's keywords select
ComposePromptDispatching(esq, pergunta) ==
    <<"Você é um assistente de análise de dados da ALMG", "REGRAS SEMÂNTICAS">>
    \o documentacao_semantica
    \o (IF \E i \in 1..Len(NORMA_KEYWORDS) : Contains(NORMA_KEYWORDS[i], lower(pergunta))
        THEN NORMA_COLS_STR \o NORMA_JOIN_INSTRUCTION
        ELSE PROPOSICAO_COLS_STR \o PROPOSICAO_JOIN_INSTRUCTION)
    \o ROBUSTEZ_INSTRUCAO
    \o <<"Esquema e relações:">> \o esq
    \o <<"Pergunta do usuário: ">> \o pergunta

\* the f-string assigned to instrucao
ComposePrompt(esq, pergunta) ==
    <<"Você é um assistente de análise de dados da ALMG", "REGRAS SEMÂNTICAS">>
    \o documentacao_semantica
    \o ROTEAMENTO_INSTRUCAO
    \o <<"Esquema e relações:">> \o esq
    \o <<"Pergunta do usuário: ">> \o pergunta

----------------------------------------------------------------------------
(* Limpeza da Query *)

FenceSql == <<Backtick, Backtick, Backtick, "s", "q", "l">>
Fence == <<Backtick, Backtick, Backtick>>
SelectToken == <<"S", "E", "L", "E", "C", "T">>

\* re.sub(r'^[^`]*```sql\s*', '', s, flags=re.DOTALL): the run of non-backticks
\* from the start of s ends at the first backtick, where ```sql must stand
SubLeadingFence(s) ==
    LET bt == Find(<<Backtick>>, s, FALSE)
    IN  IF bt # 0 /\ MatchAt(FenceSql, s, bt, FALSE)
        THEN lstrip(From(s, bt + Len(FenceSql)))
        ELSE s

\* re.sub(r'```.*$', '', s, flags=re.DOTALL): cut at the leftmost ```
SubTrailingFence(s) ==
    LET i == Find(Fence, s, FALSE)
    IN  IF i = 0 THEN s ELSE SubSeq(s, 1, i - 1)

\* re.search(r'(SELECT.*)', s, IGNORECASE | DOTALL) and the if that follows
SearchSelect(s) ==
    LET i == Find(SelectToken, s, TRUE)
    IN  IF i # 0 THEN strip(From(s, i)) ELSE s

\* what query_sql holds after the cleaning, from response.text.strip()
CleanQuery(q) == SearchSelect(strip(SubTrailingFence(SubLeadingFence(q))))

----------------------------------------------------------------------------
(* The result table: column labels in order, and every row a function from  *)
(* the labels to the cell values.                                           *)

Range(s) == {s[i] : i \in 1..Len(s)}

NaN == "NaN"

NoFrame == [columns |-> <<>>, rows |-> <<>>]

\* lambda x: f'<a href="{x}" target="_blank">..</a>' if pd.notna(x) else ""
LinkCell(x) == IF x # NaN THEN "<a href=" \o x \o " target=_blank>link</a>" ELSE ""

\* df_resultado['Link'] = df_resultado['url'].apply(...): a new last column,
\* or the existing Link column overwritten in place
AssignLink(df) ==
    LET cols == IF "Link" \in Range(df.columns) THEN df.columns
                ELSE Append(df.columns, "Link")
    IN  [columns |-> cols,
         rows |-> [i \in 1..Len(df.rows) |->
                     [c \in Range(cols) |->
                        IF c = "Link" THEN LinkCell(df.rows[i]["url"])
                        ELSE df.rows[i][c]]]]

expected_order == <<"Tipo", "Número", "Ano", "Ementa", "Partido", "Link">>

\* [col for col in expected_order if col in df_resultado.columns]
PresentExpected(cols) ==
    LET Present(c) == c \in Range(cols) IN SelectSeq(expected_order, Present)

RECURSIVE AppendOthers(_, _)
\* for col in df_resultado.columns:
\*     if col not in new_order and col != 'url': new_order.append(col)
AppendOthers(cols, new_order) ==
    IF cols = <<>> THEN new_order
    ELSE AppendOthers(Tail(cols),
             IF Head(cols) \notin Range(new_order) /\ Head(cols) # "url"
             THEN Append(new_order, Head(cols)) ELSE new_order)

\* faulty variant: the canonical columns are not moved to the front
NewOrderAsReceived(cols) == AppendOthers(cols, <<>>)

\* new_order after both loops
NewOrder(cols) == AppendOthers(cols, PresentExpected(cols))

\* df.drop(columns=['url'], errors='ignore')
DropUrl(df) ==
    LET NotUrl(c) == c # "url"
        cols == SelectSeq(df.columns, NotUrl)
    IN  [columns |-> cols,
         rows |-> [i \in 1..Len(df.rows) |-> [c \in Range(cols) |-> df.rows[i][c]]]]

\* df[new_order]
Reindex(df, new_order) ==
    [columns |-> new_order,
     rows |-> [i \in 1..Len(df.rows) |-> [c \in Range(new_order) |-> df.rows[i][c]]]]

\* the block under `if 'url' in df_resultado.columns`
LinkAndReorder(df) ==
    IF "url" \in Range(df.columns)
    THEN LET linked == AssignLink(df)
         IN  Reindex(DropUrl(linked), NewOrder(linked.columns))
    ELSE df

----------------------------------------------------------------------------
(* Lógica de contador e concordância gramatical *)

\* faulty variant: the count stored in the first row is taken for the total
total_from_count_cell(df) ==
    IF df.rows # <<>> /\ "Quantidade" \in Range(df.columns)
    THEN df.rows[1]["Quantidade"] ELSE Len(df.rows)

\* len(df_resultado)
total_encontrado(df) == Len(df.rows)

InQuestion(words, pergunta) == LET q == lower(pergunta) IN Contains(words, q)

item_type_plural(pergunta) ==
    IF InQuestion(<<"p", "r", "o", "j", "e", "t", "o", "s", " ", "d", "e", " ", "l", "e", "i">>, pergunta)
    THEN "Projetos de Lei"
    ELSE IF InQuestion(<<"l", "e", "i", "s">>, pergunta) THEN "Leis"
    ELSE IF InQuestion(<<"n", "o", "r", "m", "a", "s">>, pergunta) THEN "Normas"
    ELSE "itens"

Singular(plural) ==
    IF plural = "Projetos de Lei" THEN "Projeto de Lei"
    ELSE IF plural = "Leis" THEN "Lei"
    ELSE IF plural = "Normas" THEN "Norma"
    ELSE "item"

item_type(pergunta, total) ==
    IF total = 1 THEN Singular(item_type_plural(pergunta)) ELSE item_type_plural(pergunta)

\* 'Lei' in item_type, 'Projeto' in item_type
HasLei(item) == item \in {"Projetos de Lei", "Projeto de Lei", "Leis", "Lei"}
HasProjeto(item) == item \in {"Projetos de Lei", "Projeto de Lei"}

status_desc(pergunta, item, total) ==
    IF \/ InQuestion(<<"p", "r", "o", "n", "t", "o", "s", " ", "p", "a", "r", "a", " ", "o", "r", "d", "e", "m", " ", "d", "o", " ", "d", "i", "a">>, pergunta)
       \/ InQuestion(<<"p", "r", "o", "n", "t", "o", " ", "p", "a", "r", "a", " ", "o", "r", "d", "e", "m", " ", "d", "o", " ", "d", "i", "a">>, pergunta)
    THEN (IF HasLei(item) /\ ~HasProjeto(item)
          THEN (IF total = 1 THEN " pronta" ELSE " prontas")
          ELSE (IF total = 1 THEN " pronto" ELSE " prontos"))
         \o " para Ordem do Dia em Plenário."
    ELSE IF \/ InQuestion(<<"p", "u", "b", "l", "i", "c", "a", "d", "o", "s">>, pergunta)
            \/ InQuestion(<<"p", "u", "b", "l", "i", "c", "a", "d", "a", "s">>, pergunta)
    THEN (IF HasLei(item)
          THEN (IF total = 1 THEN " publicada" ELSE " publicadas")
          ELSE (IF total = 1 THEN " publicado" ELSE " publicados"))
         \o "."
    ELSE "."

NoFrase == [shown |-> FALSE, total |-> 0, item |-> "", status |-> ""]

\* f"Há **{total_encontrado}** {item_type}{status_desc} Confira a seguir:",
\* shown only under `if 'Tipo' in df_resultado.columns`
FraseTotal(df, pergunta) ==
    IF "Tipo" \in Range(df.columns)
    THEN LET n == total_encontrado(df)
             it == item_type(pergunta, n)
         IN  [shown |-> TRUE, total |-> n, item |-> it,
              status |-> status_desc(pergunta, it, n)]
    ELSE NoFrase

----------------------------------------------------------------------------
(* executar_plano_de_analise *)

SuccessMsg == <<"Query executada com sucesso!">>
NoApiKeyMsg == <<"Erro: A chave de API do Gemini (GOOGLE_API_KEY) não foi configurada.">>
NoReturn == [msg |-> <<>>, is_none |-> TRUE, html |-> NoFrame]

\* faulty variant: the except block reports the error text only
ExceptHandlerWithoutQuery(e, q) ==
    [msg |-> <<"Erro ao executar a query: ">> \o e, is_none |-> TRUE, html |-> NoFrame]

\* the except block: the error text, and the query when query_sql is not empty
ExceptHandler(e, q) ==
    [msg |-> <<"Erro ao executar a query: ">> \o e
             \o (IF q # <<>> THEN <<"\n\nQuery gerada (pós-limpeza): ">> \o q ELSE <<>>),
     is_none |-> TRUE,
     html |-> NoFrame]

\* if not API_KEY: return "Erro: ...", None
NoApiKey ==
    /\ pc = "start"
    /\ ~API_KEY
    /\ ret' = [msg |-> NoApiKeyMsg, is_none |-> TRUE, html |-> NoFrame]
    /\ pc' = "done"
    /\ UNCHANGED <<API_KEY, prompt_usuario, llm, db, instrucao, query_sql, executed,
                   df_resultado, frase_total, dvars, rvars>>

\* the prompt is composed and sent; query_sql = response.text.strip()
GenerateContent ==
    /\ pc = "start"
    /\ API_KEY
    /\ llm.ok
    /\ instrucao' = ComposePrompt(esquema, prompt_usuario)
    /\ query_sql' = strip(llm.text)
    /\ pc' = "clean"
    /\ UNCHANGED <<API_KEY, prompt_usuario, llm, db, executed, df_resultado,
                   frase_total, ret, dvars, rvars>>

\* generate_content raises: the except block runs with query_sql still ""
GenerateContentRaises ==
    /\ pc = "start"
    /\ API_KEY
    /\ ~llm.ok
    /\ instrucao' = ComposePrompt(esquema, prompt_usuario)
    /\ ret' = ExceptHandler(llm.err, query_sql)
    /\ pc' = "done"
    /\ UNCHANGED <<API_KEY, prompt_usuario, llm, db, query_sql, executed,
                   df_resultado, frase_total, dvars, rvars>>

\* the two re.sub, the re.search and the strip of the cleaning block
LimpezaDaQuery ==
    /\ pc = "clean"
    /\ query_sql' = CleanQuery(query_sql)
    /\ pc' = "exec"
    /\ UNCHANGED <<API_KEY, prompt_usuario, llm, db, instrucao, executed,
                   df_resultado, frase_total, ret, dvars, rvars>>

\* df_resultado = pd.read_sql(query_sql, engine) returns a table
ReadSql ==
    /\ pc = "exec"
    /\ db.ok
    /\ executed' = Append(executed, query_sql)
    /\ df_resultado' = db.df
    /\ pc' = "frase"
    /\ UNCHANGED <<API_KEY, prompt_usuario, llm, db, instrucao, query_sql,
                   frase_total, ret, dvars, rvars>>

\* pd.read_sql raises: the except block builds the returned message
ReadSqlRaises ==
    /\ pc = "exec"
    /\ ~db.ok
    /\ executed' = Append(executed, query_sql)
    /\ ret' = ExceptHandler(db.err, query_sql)
    /\ pc' = "done"
    /\ UNCHANGED <<API_KEY, prompt_usuario, llm, db, instrucao, query_sql,
                   df_resultado, frase_total, dvars, rvars>>

\* the counter sentence
ContadorEConcordancia ==
    /\ pc = "frase"
    /\ frase_total' = FraseTotal(df_resultado, prompt_usuario)
    /\ pc' = "link"
    /\ UNCHANGED <<API_KEY, prompt_usuario, llm, db, instrucao, query_sql, executed,
                   df_resultado, ret, dvars, rvars>>

\* link column, column order, to_html and the successful return
LinkReordenacaoEHtml ==
    /\ pc = "link"
    /\ df_resultado' = LinkAndReorder(df_resultado)
    /\ ret' = [msg |-> SuccessMsg, is_none |-> FALSE, html |-> df_resultado']
    /\ pc' = "done"
    /\ UNCHANGED <<API_KEY, prompt_usuario, llm, db, instrucao, query_sql, executed,
                   frase_total, dvars, rvars>>

NextPipeline ==
    \/ NoApiKey
    \/ GenerateContent
    \/ GenerateContentRaises
    \/ LimpezaDaQuery
    \/ ReadSql
    \/ ReadSqlRaises
    \/ ContadorEConcordancia
    \/ LinkReordenacaoEHtml

----------------------------------------------------------------------------
(* The inputs of a run: the LLM's answer, the database's answer, the question *)

MaxPieces == 4
MaxCols == 5
MaxRows == 2
MaxCount == 3
MaxQuestionParts == 2

\* the building blocks of the LLM answers
Pieces ==
    {<<Backtick>>, FenceSql, Fence, <<"\n">>, SelectToken,
     <<"s", "e", "l", "e", "c", "t">>, <<"a">>, <<"D", "R", "O", "P">>}

\* an answer in the shape of the documented example: prose, fenced query
ExampleResponse ==
    Concat(<<<<"q", ":">>, <<"\n">>, FenceSql, <<"\n">>, SelectToken, <<" ", "a">>,
             <<"\n">>, Fence>>)

Responses == {Concat(p) : p \in SeqsUpTo(Pieces, MaxPieces)} \cup {ExampleResponse}

LlmRaises == [ok |-> FALSE, text |-> <<>>, err |-> <<"429 Resource exhausted">>]

LlmOutcomes(Rs) == {[ok |-> TRUE, text |-> r, err |-> <<>>] : r \in Rs} \cup {LlmRaises}

DbErrors == {<<"no such table: x">>, <<"near syntax error">>}

DbOutcomes(Fs) ==
    {[ok |-> TRUE, df |-> f, err |-> <<>>] : f \in Fs}
    \cup {[ok |-> FALSE, df |-> NoFrame, err |-> e] : e \in DbErrors}

Labels == {"Tipo", "Número", "Ano", "Ementa", "Partido", "Link", "url", "Autor", "Quantidade"}

\* column lists: the labels of a result table are taken to be distinct
ColumnLists(n) ==
    {s \in SeqsUpTo(Labels, n) : \A i, j \in 1..Len(s) : i # j => s[i] # s[j]}

\* row i of a table without counts: the first url is set, the others are NULL
TextRow(cols, i) ==
    [c \in Range(cols) |-> IF c = "url" THEN (IF i = 1 THEN "u1" ELSE NaN)
                           ELSE c \o (IF i = 1 THEN "-1" ELSE "-n")]

WideFrames ==
    {[columns |-> cols, rows |-> [i \in 1..2 |-> TextRow(cols, i)]] :
        cols \in ColumnLists(MaxCols)}

\* a row of a counting result: the count in Quantidade
CountRow(cols, n) ==
    [c \in Range(cols) |-> IF c = "Quantidade" THEN n
                           ELSE IF c = "url" THEN "u1" ELSE c \o "-1"]

CountColumns ==
    {<<"Quantidade">>, <<"Tipo", "Quantidade">>,
     <<"Tipo", "Número", "Ano", "Ementa", "url", "Quantidade">>}

CountFrames ==
    {[columns |-> cols, rows |-> [i \in 1..k |-> CountRow(cols, n)]] :
        cols \in CountColumns, k \in 0..MaxRows, n \in 0..MaxCount}

ExampleFrame ==
    [columns |-> <<"Tipo", "Número", "Ano", "Ementa", "url">>,
     rows |-> <<TextRow(<<"Tipo", "Número", "Ano", "Ementa", "url">>, 1)>>]

QuestionParts ==
    {<<"Q", "u", "a", "n", "t", "o", "s", " ", "d", "e", "p", "u", "t", "a", "d", "o", "s">>,
     <<" ", "P", "r", "o", "j", "e", "t", "o", "s", " ", "d", "e", " ", "L", "e", "i">>,
     <<" ", "l", "e", "i", "s">>, <<" ", "n", "o", "r", "m", "a", "s">>,
     <<" ", "p", "r", "o", "n", "t", "o", "s", " ", "p", "a", "r", "a", " ", "o", "r", "d", "e", "m", " ", "d", "o", " ", "d", "i", "a">>,
     <<" ", "p", "u", "b", "l", "i", "c", "a", "d", "a", "s">>}

Questions == {Concat(p) : p \in SeqsUpTo(QuestionParts, MaxQuestionParts)} \ {<<>>}

ExampleQuestion == <<"Q", "u", "a", "n", "t", "o", "s", " ", "d", "e", "p", "u", "t", "a", "d", "o", "s">>

InitPipeline(Rs, Fs, Qs) ==
    /\ pc = "start"
    /\ \/ /\ API_KEY = TRUE
          /\ llm \in LlmOutcomes(Rs)
          /\ db \in DbOutcomes(Fs)
          /\ prompt_usuario \in Qs
       \/ /\ API_KEY = FALSE
          /\ llm = LlmRaises
          /\ db = [ok |-> TRUE, df |-> ExampleFrame, err |-> <<>>]
          /\ prompt_usuario = ExampleQuestion
    /\ instrucao = <<>>
    /\ query_sql = <<>>
    /\ executed = <<>>
    /\ df_resultado = NoFrame
    /\ frase_total = NoFrase
    /\ ret = NoReturn

----------------------------------------------------------------------------
(* Asset provisioning: download_file, download_database_and_relations,      *)
(* get_database_engine, run at the top of the script by every UI session    *)
(* of the process.  The files outlive the process; the caches do not.       *)

NumSessions == 2
MaxRestarts == 1
FileChunks == 1

Sessions == 1..NumSessions

DB_FILE == "almg_local.db"
RELATIONS_FILE == "relacoes.txt"
DOC_FILE == "armazem.pdf"

\* the three download_file calls of download_database_and_relations, in order
Paths == <<DB_FILE, RELATIONS_FILE, DOC_FILE>>

\* faulty variant: the existence test always fails
os_path_exists_never(p) == FALSE

\* os.path.exists(dest_path)
os_path_exists(p) == files[p].exists

\* faulty variant: the cached functions compute without a lock
compute_value_lock_ignored(lock) == TRUE

\* the compute lock of a cached function, taken on a cache miss, is free
compute_value_lock_free(lock) == lock = {}

dest_path(s) == Paths[cur[s]]

InitProvision ==
    /\ spc = [s \in Sessions |-> "idle"]
    /\ files = [p \in Range(Paths) |-> [exists |-> FALSE, chunks |-> 0]]
    /\ resource_cache = "empty"
    /\ data_cache = "empty"
    /\ resource_lock = {}
    /\ data_lock = {}
    /\ cur = [s \in Sessions |-> 1]
    /\ oks = [s \in Sessions |-> <<>>]
    /\ last = [s \in Sessions |-> "none"]
    /\ writers = [p \in Range(Paths) |-> {}]
    /\ requests = [p \in Range(Paths) |-> 0]
    /\ first_call = [p \in Range(Paths) |-> "none"]
    /\ body_runs = [p \in Range(Paths) |-> 0]
    /\ restarts = 0

\* the script reaches get_database_engine(): a cached value is returned at
\* once, a miss goes for the compute lock
RunScript(s) ==
    /\ spc[s] = "idle"
    /\ spc' = [spc EXCEPT ![s] = IF resource_cache # "empty" THEN "done" ELSE "engine_wait"]
    /\ UNCHANGED <<files, resource_cache, data_cache, resource_lock, data_lock, cur,
                   oks, last, writers, requests, first_call, body_runs, restarts, pvars, rvars>>

\* @st.cache_resource on get_database_engine: under the lock the cache is read
\* again, and only a second miss runs the body
EnterGetDatabaseEngine(s) ==
    /\ spc[s] = "engine_wait"
    /\ compute_value_lock_free(resource_lock)
    /\ IF resource_cache # "empty"
       THEN /\ spc' = [spc EXCEPT ![s] = "done"]
            /\ UNCHANGED resource_lock
       ELSE /\ spc' = [spc EXCEPT ![s] = "data_wait"]
            /\ resource_lock' = resource_lock \cup {s}
    /\ UNCHANGED <<files, resource_cache, data_cache, data_lock, cur, oks, last,
                   writers, requests, first_call, body_runs, restarts, pvars, rvars>>

\* @st.cache_data on download_database_and_relations: a cached value skips the
\* body, a miss takes the compute lock and starts the first download_file
EnterDownloadDatabaseAndRelations(s) ==
    /\ spc[s] = "data_wait"
    /\ IF data_cache # "empty"
       THEN /\ spc' = [spc EXCEPT ![s] = "engine"]
            /\ UNCHANGED <<data_lock, cur, oks>>
       ELSE /\ compute_value_lock_free(data_lock)
            /\ data_lock' = data_lock \cup {s}
            /\ cur' = [cur EXCEPT ![s] = 1]
            /\ oks' = [oks EXCEPT ![s] = <<>>]
            /\ spc' = [spc EXCEPT ![s] = "df_check"]
    /\ UNCHANGED <<files, resource_cache, data_cache, resource_lock, last, writers,
                   requests, first_call, body_runs, restarts, pvars, rvars>>

\* download_file returns to its caller with outcome o
Returned(s, o) ==
    /\ last' = [last EXCEPT ![s] = o]
    /\ first_call' = [first_call EXCEPT ![dest_path(s)] = IF @ = "none" THEN o ELSE @]
    /\ spc' = [spc EXCEPT ![s] = "df_returned"]

\* if os.path.exists(dest_path): return True
DownloadFileExists(s) ==
    /\ spc[s] = "df_check"
    /\ os_path_exists(dest_path(s))
    /\ Returned(s, "exists")
    /\ UNCHANGED <<files, resource_cache, data_cache, resource_lock, data_lock, cur,
                   oks, writers, requests, body_runs, restarts, pvars, rvars>>

\* requests.get(...) and raise_for_status() pass
DownloadFileRequest(s) ==
    /\ spc[s] = "df_check"
    /\ ~os_path_exists(dest_path(s))
    /\ requests' = [requests EXCEPT ![dest_path(s)] = @ + 1]
    /\ body_runs' = [body_runs EXCEPT ![dest_path(s)] = @ + 1]
    /\ spc' = [spc EXCEPT ![s] = "df_open"]
    /\ UNCHANGED <<files, resource_cache, data_cache, resource_lock, data_lock, cur,
                   oks, last, writers, first_call, restarts, pvars, rvars>>

\* raise_for_status() raises HTTPError (401/403 or another status), or
\* requests.get raises another exception: return False, nothing written
DownloadFileRequestFails(s) ==
    /\ spc[s] = "df_check"
    /\ ~os_path_exists(dest_path(s))
    /\ requests' = [requests EXCEPT ![dest_path(s)] = @ + 1]
    /\ body_runs' = [body_runs EXCEPT ![dest_path(s)] = @ + 1]
    /\ \E o \in {"http_error", "request_error"} : Returned(s, o)
    /\ UNCHANGED <<files, resource_cache, data_cache, resource_lock, data_lock, cur,
                   oks, writers, restarts, pvars, rvars>>

\* with open(dest_path, 'wb') as f: the file is created, or truncated
DownloadFileOpen(s) ==
    /\ spc[s] = "df_open"
    /\ files' = [files EXCEPT ![dest_path(s)] = [exists |-> TRUE, chunks |-> 0]]
    /\ writers' = [writers EXCEPT ![dest_path(s)] = @ \cup {s}]
    /\ spc' = [spc EXCEPT ![s] = "df_write"]
    /\ UNCHANGED <<resource_cache, data_cache, resource_lock, data_lock, cur, oks,
                   last, requests, first_call, body_runs, restarts, pvars, rvars>>

\* f.write(chunk)
DownloadFileWriteChunk(s) ==
    /\ spc[s] = "df_write"
    /\ files[dest_path(s)].chunks < FileChunks
    /\ files' = [files EXCEPT ![dest_path(s)].chunks = @ + 1]
    /\ UNCHANGED <<spc, resource_cache, data_cache, resource_lock, data_lock, cur,
                   oks, last, writers, requests, first_call, body_runs, restarts, pvars, rvars>>

\* iter_content raises before the body is complete: the with block closes the
\* file, `except Exception` reports the error and returns False
DownloadFileStreamBreaks(s) ==
    /\ spc[s] = "df_write"
    /\ files[dest_path(s)].chunks < FileChunks
    /\ writers' = [writers EXCEPT ![dest_path(s)] = @ \ {s}]
    /\ Returned(s, "stream_error")
    /\ UNCHANGED <<files, resource_cache, data_cache, resource_lock, data_lock, cur,
                   oks, requests, body_runs, restarts, pvars, rvars>>

\* the body is complete: the file is closed, return True
DownloadFileComplete(s) ==
    /\ spc[s] = "df_write"
    /\ files[dest_path(s)].chunks >= FileChunks
    /\ writers' = [writers EXCEPT ![dest_path(s)] = @ \ {s}]
    /\ Returned(s, "downloaded")
    /\ UNCHANGED <<files, resource_cache, data_cache, resource_lock, data_lock, cur,
                   oks, requests, body_runs, restarts, pvars, rvars>>

\* the value download_file returned
ReturnValue(o) == o \in {"exists", "downloaded"}

\* db_ok / rel_ok = download_file(...): the next download_file call follows
AssignOk(s) ==
    /\ spc[s] = "df_returned"
    /\ cur[s] < Len(Paths)
    /\ oks' = [oks EXCEPT ![s] = Append(@, ReturnValue(last[s]))]
    /\ cur' = [cur EXCEPT ![s] = @ + 1]
    /\ last' = [last EXCEPT ![s] = "none"]
    /\ spc' = [spc EXCEPT ![s] = "df_check"]
    /\ UNCHANGED <<files, resource_cache, data_cache, resource_lock, data_lock,
                   writers, requests, first_call, body_runs, restarts, pvars, rvars>>

\* doc_ok = download_file(...); return db_ok and rel_ok and doc_ok, which
\* st.cache_data stores
DownloadDatabaseAndRelationsReturns(s) ==
    /\ spc[s] = "df_returned"
    /\ cur[s] = Len(Paths)
    /\ LET all == Append(oks[s], ReturnValue(last[s]))
       IN  data_cache' = IF \A i \in 1..Len(all) : all[i] THEN "true" ELSE "false"
    /\ data_lock' = data_lock \ {s}
    /\ oks' = [oks EXCEPT ![s] = <<>>]
    /\ cur' = [cur EXCEPT ![s] = 1]
    /\ last' = [last EXCEPT ![s] = "none"]
    /\ spc' = [spc EXCEPT ![s] = "engine"]
    /\ UNCHANGED <<files, resource_cache, resource_lock, writers, requests,
                   first_call, body_runs, restarts, pvars, rvars>>

\* the rest of get_database_engine: (None, "Falha na inicialização...", None)
\* when the downloads failed, else the engine and schema or (None, "Erro ao
\* conectar...", None); st.cache_resource stores whichever it is
GetDatabaseEngineReturns(s) ==
    /\ spc[s] = "engine"
    /\ \E built \in {"engine", "connect_error"} :
          resource_cache' = IF data_cache = "true" THEN built ELSE "download_failed"
    /\ resource_lock' = resource_lock \ {s}
    /\ spc' = [spc EXCEPT ![s] = "done"]
    /\ UNCHANGED <<files, data_cache, data_lock, cur, oks, last, writers, requests,
                   first_call, body_runs, restarts, pvars, rvars>>

\* the process ends and a new one starts: caches, locks and sessions are new,
\* the files on disk stay as they are; a download_file call under way is cut
\* off and never returns
Restart ==
    /\ restarts < MaxRestarts
    /\ restarts' = restarts + 1
    /\ spc' = [s \in Sessions |-> "idle"]
    /\ resource_cache' = "empty"
    /\ data_cache' = "empty"
    /\ resource_lock' = {}
    /\ data_lock' = {}
    /\ cur' = [s \in Sessions |-> 1]
    /\ oks' = [s \in Sessions |-> <<>>]
    /\ last' = [s \in Sessions |-> "none"]
    /\ writers' = [p \in Range(Paths) |-> {}]
    /\ body_runs' = [p \in Range(Paths) |-> 0]
    /\ first_call' = [p \in Range(Paths) |->
                         IF /\ first_call[p] = "none"
                            /\ \E s \in Sessions :
                                  spc[s] \in {"df_open", "df_write"} /\ dest_path(s) = p
                         THEN "killed" ELSE first_call[p]]
    /\ UNCHANGED <<files, requests, pvars, rvars>>

NextProvision ==
    \/ \E s \in Sessions :
          \/ RunScript(s)
          \/ EnterGetDatabaseEngine(s)
          \/ EnterDownloadDatabaseAndRelations(s)
          \/ DownloadFileExists(s)
          \/ DownloadFileRequest(s)
          \/ DownloadFileRequestFails(s)
          \/ DownloadFileOpen(s)
          \/ DownloadFileWriteChunk(s)
          \/ DownloadFileStreamBreaks(s)
          \/ DownloadFileComplete(s)
          \/ AssignOk(s)
          \/ DownloadDatabaseAndRelationsReturns(s)
          \/ GetDatabaseEngineReturns(s)
    \/ Restart

----------------------------------------------------------------------------
(* load_relationships_from_file, and the loop of get_database_engine that     *)
(* writes the relation lines of the schema text from the returned map.       *)
(* A dict is a function from its keys; the empty dict has no keys.           *)

MaxRecords == 2

EmptyDict == <<>>

TABLE_ID_TO_NAME ==
    [id \in {12, 18, 21, 24, 27, 30, 33, 42, 54, 69, 78, 84, 87, 111, 198, 201,
             228, 414, 534, 540, 606, 609, 612} |->
        CASE id = 12 -> "fat_proposicao"
          [] id = 18 -> "dim_tipo_proposicao"
          [] id = 21 -> "dim_situacao"
          [] id = 24 -> "dim_ementa"
          [] id = 27 -> "dim_autor_proposicao"
          [] id = 30 -> "dim_comissao"
          [] id = 33 -> "dim_comissao_acao_reuniao"
          [] id \in {42, 84, 201} -> "dim_data"
          [] id \in {54, 198} -> "dim_deputado_estadual"
          [] id = 69 -> "dim_partido"
          [] id = 78 -> "dim_norma_juridica"
          [] id = 87 -> "dim_data_publicacao_proposicao"
          [] id \in {111, 228, 540} -> "dim_proposicao"
          [] id = 414 -> "fat_proposicao_proposicao_lei_norma_juridica"
          [] id = 534 -> "fat_proposicao_tramitacao"
          [] id = 606 -> "fat_rqc"
          [] id = 609 -> "fat_proposicao"
          [] id = 612 -> "fat_publicacao_norma_juridica"]

\* TABLE_ID_TO_NAME.get(id, f"tabela_{id}")
TableName(id) ==
    IF id \in DOMAIN TABLE_ID_TO_NAME THEN <<TABLE_ID_TO_NAME[id]>> ELSE <<"tabela_", id>>

\* the table identifiers the records of the file are drawn from
RecordIds == {12, 78, 5}

\* the records of a well-formed relations file
Records == [FromTableID : RecordIds, ToTableID : RecordIds, IsActive : BOOLEAN]

RelationsFiles == SeqsUpTo(Records, MaxRecords)

\* df_rel[df_rel['IsActive'] == True]
FilterActive(records) == SelectSeq(records, LAMBDA r : r.IsActive = TRUE)

\* get_database_engine runs its body with the downloads reported done; the
\* relations file is on disk, with any well-formed content, or has been removed
\* since the cached download
InitRelations ==
    /\ spc = [s \in Sessions |-> "engine"]
    /\ \E there \in BOOLEAN :
          /\ files = [p \in Range(Paths) |->
                         IF p = RELATIONS_FILE
                         THEN [exists |-> there, chunks |-> IF there THEN FileChunks ELSE 0]
                         ELSE [exists |-> TRUE, chunks |-> FileChunks]]
          /\ relations_records \in (IF there THEN RelationsFiles ELSE {<<>>})
    /\ resource_cache = "empty"
    /\ data_cache = "true"
    /\ resource_lock = {}
    /\ data_lock = {}
    /\ cur = [s \in Sessions |-> 1]
    /\ oks = [s \in Sessions |-> <<>>]
    /\ last = [s \in Sessions |-> "none"]
    /\ writers = [p \in Range(Paths) |-> {}]
    /\ requests = [p \in Range(Paths) |-> 0]
    /\ first_call = [p \in Range(Paths) |-> "none"]
    /\ body_runs = [p \in Range(Paths) |-> 0]
    /\ restarts = 0
    /\ rel_pc = "start"
    /\ df_rel = <<>>
    /\ rel_i = 1
    /\ rel_map = EmptyDict
    /\ rel_ret = EmptyDict
    /\ rel_msgs = <<>>
    /\ rel_lines = {}

\* load_relationships_from_file has not been called
RelationsIdle ==
    /\ rel_pc = "start"
    /\ relations_records = <<>>
    /\ df_rel = <<>>
    /\ rel_i = 1
    /\ rel_map = EmptyDict
    /\ rel_ret = EmptyDict
    /\ rel_msgs = <<>>
    /\ rel_lines = {}

\* if not os.path.exists(relations_file): st.warning(...); return {}
RelationsFileNotFound ==
    /\ rel_pc = "start"
    /\ ~os_path_exists(RELATIONS_FILE)
    /\ rel_msgs' = Append(rel_msgs, "warning")
    /\ rel_ret' = EmptyDict
    /\ rel_pc' = "returned"
    /\ UNCHANGED <<relations_records, df_rel, rel_i, rel_map, rel_lines, pvars, dvars>>

\* pd.read_csv, the IsActive filter and rel_map = {}
ReadCsvAndFilter ==
    /\ rel_pc = "start"
    /\ os_path_exists(RELATIONS_FILE)
    /\ df_rel' = FilterActive(relations_records)
    /\ rel_map' = EmptyDict
    /\ rel_i' = 1
    /\ rel_pc' = "loop"
    /\ UNCHANGED <<relations_records, rel_ret, rel_msgs, rel_lines, pvars, dvars>>

\* one turn of `for _, row in df_rel.iterrows()`: when from_table is not a key,
\* rel_map[from_table] is evaluated and raises KeyError; when it is a key the
\* if has no other branch and nothing is added
ForRow ==
    /\ rel_pc = "loop"
    /\ rel_i <= Len(df_rel)
    /\ LET from_table == df_rel[rel_i].FromTableID
       IN  IF from_table \notin DOMAIN rel_map
           THEN /\ rel_pc' = "except"
                /\ UNCHANGED rel_i
           ELSE /\ rel_i' = rel_i + 1
                /\ UNCHANGED rel_pc
    /\ UNCHANGED <<relations_records, df_rel, rel_map, rel_ret, rel_msgs, rel_lines,
                   pvars, dvars>>

\* return rel_map, after the last row
ReturnRelMap ==
    /\ rel_pc = "loop"
    /\ rel_i > Len(df_rel)
    /\ rel_ret' = rel_map
    /\ rel_pc' = "returned"
    /\ UNCHANGED <<relations_records, df_rel, rel_i, rel_map, rel_msgs, rel_lines,
                   pvars, dvars>>

\* except Exception as e: st.error(...); return {}
ExceptException ==
    /\ rel_pc = "except"
    /\ rel_msgs' = Append(rel_msgs, "error")
    /\ rel_ret' = EmptyDict
    /\ rel_pc' = "returned"
    /\ UNCHANGED <<relations_records, df_rel, rel_i, rel_map, rel_lines, pvars, dvars>>

\* get_database_engine: one line "- <from> se relaciona com: <to, ...>" per key
\* of the returned map
RelacoesPrincipais ==
    /\ rel_pc = "returned"
    /\ rel_lines' = {[from_name |-> TableName(f),
                      to_names |-> {TableName(t) : t \in rel_ret[f]}] : f \in DOMAIN rel_ret}
    /\ rel_pc' = "done"
    /\ UNCHANGED <<relations_records, df_rel, rel_i, rel_map, rel_ret, rel_msgs,
                   pvars, dvars>>

NextRelations ==
    \/ RelationsFileNotFound
    \/ ReadCsvAndFilter
    \/ ForRow
    \/ ReturnRelMap
    \/ ExceptException
    \/ RelacoesPrincipais

----------------------------------------------------------------------------
(* Specifications *)

\* no question has been asked
PipelineIdle ==
    /\ InitPipeline({ExampleResponse}, {ExampleFrame}, {ExampleQuestion})
    /\ API_KEY /\ llm.ok /\ db.ok

\* the start-up of the process under concurrent sessions
InitStartup == InitProvision /\ PipelineIdle /\ RelationsIdle
SpecProvision == InitStartup /\ [][NextProvision]_vars

\* one question, over the answers the LLM can give
InitSql == InitProvision /\ InitPipeline(Responses, {ExampleFrame}, {ExampleQuestion}) /\ RelationsIdle
SpecSql == InitSql /\ [][NextPipeline]_vars

\* one question, over the column lists the database can return
InitColumns == InitProvision /\ InitPipeline({ExampleResponse}, WideFrames, {ExampleQuestion}) /\ RelationsIdle
SpecColumns == InitColumns /\ [][NextPipeline]_vars

\* the questions, over counting results
InitQuestion == InitProvision /\ InitPipeline({ExampleResponse}, CountFrames, Questions) /\ RelationsIdle
SpecQuestion == InitQuestion /\ [][NextPipeline]_vars

\* one call of load_relationships_from_file, over the relations files
InitLoadRelationships == InitRelations /\ PipelineIdle
SpecRelations == InitLoadRelationships /\ [][NextRelations]_vars

----------------------------------------------------------------------------
(* Properties *)

\* the mutating keywords of the deny-list the specification asks for
ForbiddenKeywords ==
    {<<"D", "R", "O", "P">>, <<"D", "E", "L", "E", "T", "E">>, <<"U", "P", "D", "A", "T", "E">>,
     <<"I", "N", "S", "E", "R", "T">>, <<"A", "L", "T", "E", "R">>}

HasForbidden(q) == \E k \in ForbiddenKeywords : Find(k, q, TRUE) # 0

\* C1: a sanitized SQL text that holds DROP, DELETE, UPDATE, INSERT or ALTER, in
\* any letter case, is rejected: it never reaches pd.read_sql.
C1_ForbiddenNeverExecuted ==
    \A i \in 1..Len(executed) : ~HasForbidden(executed[i])

\* C2: when download_file returns failure because the stream broke after the
\* file was opened, no file is left at dest_path; and so a call that returns
\* success because the file exists never finds a partial file.
C2_FailedDownloadLeavesNoFile ==
    \A s \in Sessions :
        spc[s] = "df_returned" =>
            /\ last[s] = "stream_error" => ~files[dest_path(s)].exists
            /\ last[s] = "exists" => files[dest_path(s)].chunks = FileChunks

\* the outcomes of a download_file call that created the file
CreatedFile == {"downloaded", "stream_error"}

\* C3: a download_file call that finds dest_path returns True without an HTTP
\* request and without touching the file; and when the first call for a path
\* created the file, one request is all that is ever made for that path,
\* however many calls follow.
C3_ExistingFileSkipsDownload ==
    [][/\ \A s \in Sessions :
             (spc[s] = "df_check" /\ spc'[s] = "df_returned" /\ os_path_exists(dest_path(s)))
             => /\ ReturnValue(last'[s])
                /\ requests' = requests
                /\ files' = files
       /\ \A p \in Range(Paths) :
             first_call'[p] \in CreatedFile => requests'[p] = 1]_vars

\* C3 witness: a second process called download_file for a file the first
\* process created, and returned True from the existence test.
C3_Witness ==
    \E s \in Sessions :
        /\ restarts = 1
        /\ spc[s] = "df_returned"
        /\ last[s] = "exists"
        /\ first_call[dest_path(s)] \in CreatedFile
        /\ requests[dest_path(s)] = 1

Fenced(text, i, j) == strip(SubSeq(text, i + Len(FenceSql), j - 1))

\* C5: an answer <leading text> ```sql S ``` <trailing text>, with S starting
\* with SELECT and free of backticks, is cleaned to exactly S.
C5_FencedSelectExtracted ==
    (pc \notin {"start", "clean"} /\ llm.ok) =>
        \A i, j \in 1..Len(llm.text) :
            (/\ MatchAt(FenceSql, llm.text, i, FALSE)
             /\ i + Len(FenceSql) <= j
             /\ MatchAt(Fence, llm.text, j, FALSE)
             /\ MatchAt(SelectToken, Fenced(llm.text, i, j), 1, FALSE)
             /\ ~Contains(<<Backtick>>, Fenced(llm.text, i, j)))
            => query_sql = Fenced(llm.text, i, j)

\* C6: an answer without the token SELECT is an extraction failure: nothing is
\* handed to pd.read_sql.
C6_NoSelectNothingExecuted ==
    (llm.ok /\ Find(SelectToken, llm.text, TRUE) = 0) => executed = <<>>

\* C7: when pd.read_sql raises, the function returns a null result and a
\* message that is not the success message and holds both the error text and
\* the exact SQL text that was executed.
C7_ExecutionErrorReported ==
    (pc = "done" /\ executed # <<>> /\ ~db.ok) =>
        /\ ret.is_none
        /\ ret.msg # SuccessMsg
        /\ Contains(db.err, ret.msg)
        /\ Contains(executed[Len(executed)], ret.msg)

\* C7 witness: a non-empty query was executed, the database raised, and the
\* function has returned.
C7_Witness ==
    /\ pc = "done"
    /\ executed # <<>>
    /\ executed[1] # <<>>
    /\ ~db.ok
    /\ ret.is_none

IndexOf(c, s) == CHOOSE i \in 1..Len(s) : s[i] = c

Canonical(c) == c \in Range(expected_order)

\* C8: a result with a url column is shown without url and with a Link column
\* made from url; the columns are the present members of the canonical list in
\* canonical order, then the other columns in their original order; the
\* columns Tipo, Número, Ano, Ementa, url in any order give Tipo, Número, Ano,
\* Ementa, Link.
C8_LinkColumnAndOrder ==
    (pc = "done" /\ ~ret.is_none /\ "url" \in Range(db.df.columns)) =>
        LET inp == db.df
            out == ret.html
            oc == out.columns
        IN  /\ "url" \notin Range(oc)
            /\ "Link" \in Range(oc)
            /\ Range(oc) = (Range(inp.columns) \ {"url"}) \cup {"Link"}
            /\ Len(oc) = Cardinality(Range(oc))
            /\ \A i, j \in 1..Len(oc) :
                  i < j =>
                     /\ (Canonical(oc[i]) /\ Canonical(oc[j]))
                        => IndexOf(oc[i], expected_order) < IndexOf(oc[j], expected_order)
                     /\ ~Canonical(oc[i])
                        => /\ ~Canonical(oc[j])
                           /\ IndexOf(oc[i], inp.columns) < IndexOf(oc[j], inp.columns)
            /\ Len(out.rows) = Len(inp.rows)
            /\ \A r \in 1..Len(inp.rows) :
                  /\ out.rows[r]["Link"] = LinkCell(inp.rows[r]["url"])
                  /\ \A c \in Range(oc) \ {"Link"} : out.rows[r][c] = inp.rows[r][c]
            /\ Range(inp.columns) = {"Tipo", "Número", "Ano", "Ementa", "url"}
               => oc = <<"Tipo", "Número", "Ano", "Ementa", "Link">>

\* C8 witness: the five columns of the example arrive in reverse order and
\* leave in canonical order, with a link made from the url.
C8_Witness ==
    /\ pc = "done"
    /\ db.ok
    /\ db.df.columns = <<"url", "Ementa", "Ano", "Número", "Tipo">>
    /\ ret.html.columns = <<"Tipo", "Número", "Ano", "Ementa", "Link">>
    /\ ret.html.rows[1]["Link"] = LinkCell("u1")

IsCountingQuestion(pergunta) == InQuestion(<<"q", "u", "a", "n", "t", "o", "s">>, pergunta)

\* C9 as stated: for a counting question whose result is a single row holding
\* a count N, the output holds the sentence "Há **N** ..." with that N.
C9_SentenceReportsCountValue ==
    (/\ pc = "done" /\ ~ret.is_none
     /\ IsCountingQuestion(prompt_usuario)
     /\ Len(db.df.rows) = 1
     /\ "Quantidade" \in Range(db.df.columns)) =>
        /\ frase_total.shown
        /\ frase_total.total = db.df.rows[1]["Quantidade"]

\* C9 amended: the sentence "Há **N** ..." is shown exactly when the result has
\* a Tipo column, and N is the number of rows of the result.
C9_SentenceReportsRowCount ==
    (pc = "done" /\ ~ret.is_none) =>
        IF "Tipo" \in Range(db.df.columns)
        THEN frase_total.shown /\ frase_total.total = Len(db.df.rows)
        ELSE ~frase_total.shown

\* C9 witness: a counting question, a single row with Tipo and the count 3:
\* the sentence says 1.
C9_Witness ==
    /\ pc = "done" /\ ~ret.is_none
    /\ IsCountingQuestion(prompt_usuario)
    /\ db.df.columns = <<"Tipo", "Quantidade">>
    /\ Len(db.df.rows) = 1
    /\ db.df.rows[1]["Quantidade"] = 3
    /\ frase_total.shown
    /\ frase_total.total = 1

HasNormaKeyword(pergunta) ==
    LET q == lower(pergunta)
    IN  \E i \in 1..Len(NORMA_KEYWORDS) : Contains(NORMA_KEYWORDS[i], q)

HasNormaRoute(prompt) ==
    Contains(NORMA_JOIN_INSTRUCTION, prompt) /\ Contains(NORMA_COLS_STR, prompt)

HasProposicaoRoute(prompt) ==
    Contains(PROPOSICAO_JOIN_INSTRUCTION, prompt) /\ Contains(PROPOSICAO_COLS_STR, prompt)

WordChars ==
    Range(LowerChars) \cup Range(UpperChars)
        \cup {"0", "1", "2", "3", "4", "5", "6", "7", "8", "9", "_"}

\* SELECT stands at position i of s as a word of its own, in any letter case
SelectTokenAt(s, i) ==
    /\ MatchAt(SelectToken, s, i, TRUE)
    /\ (i = 1 \/ s[i - 1] \notin WordChars)
    /\ (i + Len(SelectToken) > Len(s) \/ s[i + Len(SelectToken)] \notin WordChars)

\* position of the first token SELECT of s, 0 when there is none
FirstSelectToken(s) ==
    LET hits == {i \in 1..Len(s) : SelectTokenAt(s, i)}
    IN  IF hits = {} THEN 0 ELSE CHOOSE i \in hits : \A j \in hits : i <= j

\* the answer after the two fence substitutions
FenceStripped(text) == strip(SubTrailingFence(SubLeadingFence(strip(text))))

\* C11: for an answer that holds the token SELECT, the text handed to
\* pd.read_sql is not empty and is the fence-stripped answer from its first
\* token SELECT to the end; a SELECT inside a longer word is not the start.
C11_SelectTokenStartsQuery ==
    (executed # <<>> /\ llm.ok /\ FirstSelectToken(llm.text) # 0) =>
        LET t == FenceStripped(llm.text)
            i == FirstSelectToken(t)
        IN  /\ executed[1] # <<>>
            /\ i # 0
            /\ executed[1] = strip(From(t, i))

\* the file has an active record from f to t
ActiveRecord(f, t) ==
    \E k \in 1..Len(relations_records) :
        /\ relations_records[k].IsActive
        /\ relations_records[k].FromTableID = f
        /\ relations_records[k].ToTableID = t

\* C12: for a well-formed relations file, the returned map holds the pair
\* (from, to) exactly when the file has an active record with these two
\* identifiers.
C12_MapHoldsActiveRecords ==
    (rel_pc \in {"returned", "done"} /\ os_path_exists(RELATIONS_FILE)) =>
        \A f, t \in RecordIds :
            (f \in DOMAIN rel_ret /\ t \in rel_ret[f]) <=> ActiveRecord(f, t)

====
